---------------------------- MODULE Spec2Model ----------------------------
(***************************************************************************)
(* Model of docs/generate_command_docs.py, the script that keeps the       *)
(* reference pages of the pebble CLI commands in sync with `--help`.       *)
(*                                                                         *)
(* A text (Python str) is a sequence of tokens.  A token is a TLA+ string  *)
(* standing for a run of characters that the program never splits; the     *)
(* literals of the source are cut into tokens at the places where two      *)
(* literals share a prefix or a suffix (the two markers share their first  *)
(* and last token; the toctree header and a code fence share the fence).   *)
(* A backquote of the source is written as an apostrophe, since a TLA+     *)
(* string cannot hold a backquote.  Command names                          *)
(* and descriptions are sequences of one-character tokens, so that they    *)
(* can be compared and sorted as Python compares strings.                  *)
(* Positions are 0-based, as in Python.                                    *)
(***************************************************************************)
EXTENDS Integers, Sequences, FiniteSets, TLC

VARIABLES
    stdout,        \* text printed by `pebble help --all` (read by each run)
    docs,          \* the store: command name -> text of <cmd>.md, or NotFound
    index,         \* text of cli-commands.md
    pc,            \* position of main()
    cmds,          \* main: the list returned by get_all_commands
    i,             \* main: 1-based position in cmds of the loop
    text,          \* process_command: the text read from the file
    file_existed,  \* process_command: result of create_file_if_not_exist
    returncode,    \* exit status of the last help invocation of the run
    captured,      \* stdout of the last help invocation of the run
    writes,        \* files written so far by the current run, in order
    outcomes,      \* outcome of each command processed by the current run
    runs,          \* number of runs started
    mD,            \* merge study: the document text given to the merge
    mCmd,          \* merge study: the command
    mHelp,         \* merge study: the captured help text
    mOut,          \* merge study: the texts after each merge, in order
    mSkipped       \* merge study: whether each merge was skipped

vars == <<stdout, docs, index, pc, cmds, i, text, file_existed, returncode,
          captured, writes, outcomes, runs, mD, mCmd, mHelp, mOut, mSkipped>>

runVars == <<stdout, docs, index, pc, cmds, i, text, file_existed, returncode,
             captured, writes, outcomes, runs>>

mergeVars == <<mD, mCmd, mHelp, mOut, mSkipped>>

(***************************************************************************)
(* Bounds of the model.                                                    *)
(***************************************************************************)
\* Lines of `pebble help --all` output.
MaxLines == 2
\* Runs of main() in a row on the same store.
MaxRuns == 2
\* Fragments a document of the merge study is concatenated from.
MaxFrags == 3

(***************************************************************************)
(* Python str primitives.                                                  *)
(***************************************************************************)
Min(S) == CHOOSE x \in S : \A y \in S : x <= y

\* Python's normalisation of a slice bound n for a string of length len.
Clamp(n, len) == IF n < 0 THEN (IF len + n < 0 THEN 0 ELSE len + n)
                 ELSE (IF n > len THEN len ELSE n)

\* t[:n]
SliceTo(t, n) == SubSeq(t, 1, Clamp(n, Len(t)))

\* t[n:]
SliceFrom(t, n) == SubSeq(t, Clamp(n, Len(t)) + 1, Len(t))

\* t.find(pat, start): lowest position >= start where pat occurs, else -1.
Find(t, pat, start) ==
    LET hits == {p \in start..(Len(t) - Len(pat)) :
                    SubSeq(t, p + 1, p + Len(pat)) = pat}
    IN  IF hits = {} THEN -1 ELSE Min(hits)

\* pat in t
Contains(t, pat) == Find(t, pat, 0) # -1

\* Number of occurrences of pat in t.
Count(t, pat) ==
    Cardinality({p \in 0..(Len(t) - Len(pat)) :
                    SubSeq(t, p + 1, p + Len(pat)) = pat})

\* "".join(parts)
RECURSIVE Concat(_)
Concat(parts) ==
    IF parts = <<>> THEN <<>> ELSE Head(parts) \o Concat(Tail(parts))

\* sep.join(parts)
RECURSIVE Join(_, _)
Join(sep, parts) ==
    IF parts = <<>> THEN <<>>
    ELSE IF Len(parts) = 1 THEN parts[1]
    ELSE parts[1] \o sep \o Join(sep, Tail(parts))

IsSpace(c) == c \in {" ", "\n"}

\* s.lstrip()
RECURSIVE LStrip(_)
LStrip(s) == IF s # <<>> /\ IsSpace(Head(s)) THEN LStrip(Tail(s)) ELSE s

\* s.rstrip()
RECURSIVE RStrip(_)
RStrip(s) ==
    IF s # <<>> /\ IsSpace(s[Len(s)]) THEN RStrip(SubSeq(s, 1, Len(s) - 1))
    ELSE s

\* s.strip()
Strip(s) == LStrip(RStrip(s))

\* ch.lower() for the letters of the model
LowerChar(c) ==
    CASE c = "R" -> "r"
      [] c = "L" -> "l"
      [] OTHER -> c

\* s.lower()
Lower(s) == [k \in 1..Len(s) |-> LowerChar(s[k])]

(***************************************************************************)
(* Module constants.                                                       *)
(***************************************************************************)
AUTOMATED_START_MARKER == <<"<!-- ", "START", " AUTOMATED OUTPUT -->">>
AUTOMATED_STOP_MARKER == <<"<!-- ", "END", " AUTOMATED OUTPUT -->">>

\* Three backquotes: the fence of a Markdown code block.
FENCE == "'''"

PH_COMMAND == "{command}"
PH_DESCRIPTION == "{description}"

TEMPLATE ==
    <<"(reference_pebble_", PH_COMMAND, "_command)=", "\n",
      "# ", PH_COMMAND, " command", "\n",
      "\n",
      PH_DESCRIPTION, "\n",
      "\n",
      "## Usage", "\n",
      "\n">>
    \o AUTOMATED_START_MARKER \o
    <<"\n",
      FENCE, "{{", "terminal", "}}", "\n",
      "   ", ":input: ", "command", "\n",
      FENCE, "\n">>
    \o AUTOMATED_STOP_MARKER \o
    <<"\n">>

(***************************************************************************)
(* The merge.                                                              *)
(***************************************************************************)
\* re.sub(r"(:input: ).*$", rf"\1{cmd}", text, count=1, flags=re.MULTILINE):
\* the rest of the line after the first ":input: " becomes cmd.
render_code_block_cmd(t, cmd) ==
    LET at == Find(t, <<":input: ">>, 0)
        nl == Find(t, <<"\n">>, at + 1)
        eol == IF nl = -1 THEN Len(t) ELSE nl
    IN  IF at = -1 THEN t
        ELSE SliceTo(t, at + 1) \o cmd \o SliceFrom(t, eol)

render_code_block_output(t, output) ==
    LET start_pos == Find(t, AUTOMATED_START_MARKER, 0)
        end_pos == Find(t, AUTOMATED_STOP_MARKER, 0) + Len(AUTOMATED_STOP_MARKER)
    IN  SliceTo(t, start_pos) \o output \o SliceFrom(t, end_pos)

HELP == <<"h", "e", "l", "p">>

\* " ".join(["pebble"] + args)
help_cmd_str(cmd) ==
    Join(<<" ">>, <<<<"pebble">>>> \o
                  (IF cmd = HELP THEN <<HELP>> ELSE <<cmd, <<"--help">>>>))

\* The second component of generate_help_command_and_output, given the
\* stdout of the help invocation.
help_cmd_output(cmd, help_stdout) ==
    AUTOMATED_START_MARKER \o
    <<"\n", FENCE, "{", "terminal", "}", "\n", ":input: ">> \o
    help_cmd_str(cmd) \o <<"\n">> \o
    Strip(help_stdout) \o
    <<"\n", FENCE, "\n">> \o
    AUTOMATED_STOP_MARKER

\* The guard with its test inverted (`in` for `not in`).
MarkerNotFound_Inverted(t) == Contains(t, AUTOMATED_START_MARKER)

\* The guard of process_command: AUTOMATED_START_MARKER not in text.
MarkerNotFound(t) == ~Contains(t, AUTOMATED_START_MARKER)

\* str.format(command=..., description=...) on the tokens of a template.
FormatToken(tok, cmd, description) ==
    CASE tok = PH_COMMAND -> cmd
      [] tok = PH_DESCRIPTION -> description
      [] tok = "{{" -> <<"{">>
      [] tok = "}}" -> <<"}">>
      [] OTHER -> <<tok>>

\* A format call that is given the command only (description= left out
\* and the placeholder kept).
Format_CommandOnly(t, cmd, description) ==
    Concat([k \in 1..Len(t) |->
              IF t[k] = PH_DESCRIPTION THEN <<t[k]>>
              ELSE FormatToken(t[k], cmd, description)])

Format(t, cmd, description) ==
    Concat([k \in 1..Len(t) |-> FormatToken(t[k], cmd, description)])

\* description = f"The '{cmd}' command is used to {description.lower()}."
DescriptionSentence(cmd, description) ==
    <<"The '">> \o cmd \o <<"' command is used to ">> \o
    Lower(description) \o <<".">>

\* Lines 135-142 of process_command: the text that is written to the file.
MergedText(t, existed, cmd, description, help_stdout) ==
    LET t1 == IF existed THEN t
              ELSE Format(t, cmd, DescriptionSentence(cmd, description))
        t2 == render_code_block_cmd(t1, help_cmd_str(cmd))
    IN  render_code_block_output(t2, help_cmd_output(cmd, help_stdout))

(***************************************************************************)
(* Inputs.                                                                 *)
(***************************************************************************)
FOO == <<"f", "o", "o">>
BAR == <<"b", "a", "r">>
CmdNames == {FOO, BAR}

\* What a help invocation may print.
HelpOutputs ==
    { <<"Usage: ", "pebble", "\n", "\n", "Runs.", "\n">>,
      <<"Usage: ", "pebble", "\n", "\n", "Lists.", "\n">> }

NotFound == "NotFound"

(***************************************************************************)
(* get_all_commands.                                                       *)
(***************************************************************************)
\* The characters of the model in code point order.
CodePoints ==
    <<"\n", " ", "-", ".", ":", "<", ">", "C", "L", "R", "a", "b", "d", "f",
      "i", "l", "m", "n", "o", "r", "s", "t", "u">>

\* ord(c)
Ord(c) == CHOOSE k \in 1..Len(CodePoints) : CodePoints[k] = c

\* a < b for two str
RECURSIVE StrLess(_, _)
StrLess(a, b) ==
    IF b = <<>> THEN FALSE
    ELSE IF a = <<>> THEN TRUE
    ELSE IF Head(a) = Head(b) THEN StrLess(Tail(a), Tail(b))
    ELSE Ord(Head(a)) < Ord(Head(b))

\* a < b for two lists of str
RECURSIVE ListLess(_, _)
ListLess(a, b) ==
    IF b = <<>> THEN FALSE
    ELSE IF a = <<>> THEN TRUE
    ELSE IF Head(a) = Head(b) THEN ListLess(Tail(a), Tail(b))
    ELSE StrLess(Head(a), Head(b))

\* x put into the sorted list xs, after the entries that are not greater.
RECURSIVE Insert(_, _)
Insert(x, xs) ==
    IF xs = <<>> THEN <<x>>
    ELSE IF ListLess(x, Head(xs)) THEN <<x>> \o xs
    ELSE <<Head(xs)>> \o Insert(x, Tail(xs))

\* sorted(xs) for a list of lists of str
RECURSIVE Sorted(_)
Sorted(xs) ==
    IF xs = <<>> THEN <<>>
    ELSE Insert(xs[Len(xs)], Sorted(SubSeq(xs, 1, Len(xs) - 1)))

\* s.splitlines()
RECURSIVE SplitLines(_)
SplitLines(s) ==
    IF s = <<>> THEN <<>>
    ELSE LET nl == Find(s, <<"\n">>, 0)
         IN  IF nl = -1 THEN <<s>>
             ELSE <<SliceTo(s, nl)>> \o SplitLines(SliceFrom(s, nl + 1))

\* s.startswith(prefix)
StartsWith(s, prefix) == SliceTo(s, Len(prefix)) = prefix

\* s.split(maxsplit=1)
Split1(s) ==
    LET a == LStrip(s)
        gaps == {p \in 0..(Len(a) - 1) : IsSpace(a[p + 1])}
        rest == LStrip(SliceFrom(a, Min(gaps)))
    IN  IF a = <<>> THEN <<>>
        ELSE IF gaps = {} THEN <<a>>
        ELSE IF rest = <<>> THEN <<SliceTo(a, Min(gaps))>>
        ELSE <<SliceTo(a, Min(gaps)), rest>>

\* line.startswith("    ")
Indented(line) == StartsWith(line, <<" ", " ", " ", " ">>)

\* [line for line in lines if line.startswith("    ")]
RECURSIVE IndentedLines(_)
IndentedLines(lines) ==
    IF lines = <<>> THEN <<>>
    ELSE (IF Indented(Head(lines)) THEN <<Head(lines)>> ELSE <<>>)
         \o IndentedLines(Tail(lines))

get_all_commands(out) ==
    LET lines == IndentedLines(SplitLines(out))
    IN  Sorted([k \in 1..Len(lines) |-> Split1(lines[k])])

(***************************************************************************)
(* update_toc.                                                             *)
(***************************************************************************)
TOC_HEADER == <<FENCE, "{toctree}">>

cmd_list(cs) ==
    Join(<<"\n">>, [k \in 1..Len(cs) |-> cs[k][1] \o <<" ", "<">> \o cs[k][1] \o <<">">>])

toc_tree(cs) ==
    TOC_HEADER \o <<"\n", ":titlesonly:", "\n", ":maxdepth: 1", "\n", "\n">> \o
    cmd_list(cs) \o <<"\n", FENCE>>

\* The text update_toc writes to the index page, given the text it read.
update_toc(t, cs) ==
    LET start_index == Find(t, TOC_HEADER, 0)
        end_index == Find(t, <<FENCE>>, start_index + 1) + Len(<<FENCE>>)
    IN  SliceTo(t, start_index) \o toc_tree(cs) \o SliceFrom(t, end_index)

(***************************************************************************)
(* The store and the tool at the start.                                    *)
(***************************************************************************)
ListLine(name, description) ==
    <<" ", " ", " ", " ">> \o name \o
    (IF description = <<>> THEN <<>> ELSE <<" ", " ">> \o description)

\* The lines `pebble help --all` may print: a heading, and a command with
\* or without its summary.
ListLines ==
    { <<"C", "o", "m", "m", "a", "n", "d", "s", ":">>,
      ListLine(FOO, <<>>),
      ListLine(BAR, <<>>),
      ListLine(FOO, <<"R", "u", "n">>),
      ListLine(BAR, <<"L", "i", "s", "t">>) }

\* The command a line lists, or the empty string for a line that lists none.
ListedCommand(line) ==
    IF Indented(line) /\ Split1(line) # <<>> THEN Split1(line)[1] ELSE <<>>

\* The tool lists no command twice.
DistinctCommands(ls) ==
    \A j, k \in 1..Len(ls) :
        (j # k /\ ListedCommand(ls[j]) # <<>>) =>
            ListedCommand(ls[j]) # ListedCommand(ls[k])

ListOutputs ==
    { Concat([k \in 1..Len(ls) |-> ls[k] \o <<"\n">>]) :
        ls \in { l \in UNION { [1..n -> ListLines] : n \in 0..MaxLines } :
                    DistinctCommands(l) } }

\* A page written by hand, without the markers.
UnmanagedDoc == <<"# ", "notes", "\n", "Written by hand.", "\n">>

\* A page as an earlier run left it, with prose around the region.
ManagedDoc ==
    <<"# ", "page", "\n">> \o AUTOMATED_START_MARKER \o
    <<"\n", FENCE, "{", "terminal", "}", "\n", ":input: ", "pebble", " ", "old",
      "\n", "Old help.", "\n", FENCE, "\n">> \o
    AUTOMATED_STOP_MARKER \o <<"\n", "See also.", "\n">>

\* A page whose end marker was removed by an edit.
StartOnlyDoc ==
    <<"# ", "page", "\n">> \o AUTOMATED_START_MARKER \o
    <<"\n", "Old help.", "\n", "See also.", "\n">>

InitialDocs == {NotFound, UnmanagedDoc, ManagedDoc, StartOnlyDoc}

\* The index page: with an old listing, with an empty listing and a code
\* block after it, and without a listing.
InitialIndexes ==
    { <<"# CLI commands", "\n">> \o TOC_HEADER \o
      <<"\n", ":titlesonly:", "\n", ":maxdepth: 1", "\n", "\n",
        "o", "l", "d", " ", "<", "o", "l", "d", ">", "\n", FENCE, "\n">>,
      <<"# CLI commands", "\n">> \o TOC_HEADER \o
      <<"\n", FENCE, "\n", FENCE, "sh", "\n", "pebble", "\n", FENCE, "\n">>,
      <<"# CLI commands", "\n", "No list yet.", "\n">> }

INDEX_PAGE == "reference/cli-commands/cli-commands.md"

idleMerge ==
    /\ mD = <<>>
    /\ mCmd = FOO
    /\ mHelp = <<>>
    /\ mOut = <<>>
    /\ mSkipped = <<>>

Init ==
    /\ stdout \in ListOutputs
    /\ docs \in [CmdNames -> InitialDocs]
    /\ index \in InitialIndexes
    /\ pc = "start"
    /\ cmds = <<>>
    /\ i = 0
    /\ text = <<>>
    /\ file_existed = FALSE
    /\ returncode = 0
    /\ captured = <<>>
    /\ writes = <<>>
    /\ outcomes = <<>>
    /\ runs = 1
    /\ idleMerge

(***************************************************************************)
(* main and process_command.                                               *)
(***************************************************************************)
Ended == pc \in {"done", "ValueError", "CalledProcessError"}

\* main, line 149: the list command exits with status 0.
GetAllCommands ==
    /\ pc = "start"
    /\ returncode' = 0
    /\ cmds' = get_all_commands(stdout)
    /\ i' = 1
    /\ pc' = "loop"
    /\ UNCHANGED <<stdout, docs, index, text, file_existed, captured, writes,
                   outcomes, runs>>
    /\ UNCHANGED mergeVars

\* main, line 149: the list command fails and check=True raises.
GetAllCommandsFails ==
    /\ pc = "start"
    /\ returncode' = 1
    /\ pc' = "CalledProcessError"
    /\ UNCHANGED <<stdout, docs, index, cmds, i, text, file_existed, captured,
                   writes, outcomes, runs>>
    /\ UNCHANGED mergeVars

\* main, line 150: the entry has no two parts to unpack.
UnpackFails ==
    /\ pc = "loop"
    /\ i <= Len(cmds)
    /\ Len(cmds[i]) # 2
    /\ pc' = "ValueError"
    /\ UNCHANGED <<stdout, docs, index, cmds, i, text, file_existed, returncode,
                   captured, writes, outcomes, runs>>
    /\ UNCHANGED mergeVars

\* The store after create_file_if_not_exist for cmd.
create_file_if_not_exist(store, cmd) ==
    IF store[cmd] = NotFound THEN [store EXCEPT ![cmd] = TEMPLATE] ELSE store

\* process_command, lines 120-133: the page has no start marker; return.
ProcessIgnore ==
    /\ pc = "loop"
    /\ i <= Len(cmds)
    /\ Len(cmds[i]) = 2
    /\ LET cmd == cmds[i][1]
           store == create_file_if_not_exist(docs, cmd)
       IN  /\ MarkerNotFound(store[cmd])
           /\ docs' = store
           /\ writes' = IF docs[cmd] = NotFound THEN Append(writes, cmd) ELSE writes
    /\ outcomes' = Append(outcomes, "skipped")
    /\ i' = i + 1
    /\ UNCHANGED <<stdout, index, pc, cmds, text, file_existed, returncode,
                   captured, runs>>
    /\ UNCHANGED mergeVars

\* process_command, lines 120-135, up to the help invocation.
ProcessRead ==
    /\ pc = "loop"
    /\ i <= Len(cmds)
    /\ Len(cmds[i]) = 2
    /\ LET cmd == cmds[i][1]
           store == create_file_if_not_exist(docs, cmd)
       IN  /\ ~MarkerNotFound(store[cmd])
           /\ docs' = store
           /\ writes' = IF docs[cmd] = NotFound THEN Append(writes, cmd) ELSE writes
           /\ file_existed' = (docs[cmd] # NotFound)
           /\ text' = store[cmd]
    /\ pc' = "capture"
    /\ UNCHANGED <<stdout, index, cmds, i, returncode, captured, outcomes, runs>>
    /\ UNCHANGED mergeVars

\* get_command_help_output: the help invocation exits with status 0.
Capture ==
    /\ pc = "capture"
    /\ \E out \in HelpOutputs : captured' = out
    /\ returncode' = 0
    /\ pc' = "merge"
    /\ UNCHANGED <<stdout, docs, index, cmds, i, text, file_existed, writes,
                   outcomes, runs>>
    /\ UNCHANGED mergeVars

\* subprocess.run without check=True: the status is ignored and
\* process_command goes on with whatever was captured.
AfterFailedCapture_Unchecked == "merge"

\* Where main is after a help invocation that exited with a non-zero
\* status: check=True raises CalledProcessError, which nothing catches.
AfterFailedCapture == "CalledProcessError"

\* get_command_help_output: the help invocation exits with a non-zero status.
CaptureFails ==
    /\ pc = "capture"
    /\ returncode' = 1
    /\ pc' = AfterFailedCapture
    /\ UNCHANGED <<stdout, docs, index, cmds, i, text, file_existed, captured,
                   writes, outcomes, runs>>
    /\ UNCHANGED mergeVars

\* process_command, lines 135-145: merge and write.
MergeSave ==
    /\ pc = "merge"
    /\ LET cmd == cmds[i][1]
           description == cmds[i][2]
       IN  /\ docs' = [docs EXCEPT
                         ![cmd] = MergedText(text, file_existed, cmd, description,
                                             captured)]
           /\ writes' = Append(writes, cmd)
    /\ outcomes' = Append(outcomes, IF file_existed THEN "updated" ELSE "created")
    /\ i' = i + 1
    /\ pc' = "loop"
    /\ text' = <<>>
    /\ file_existed' = FALSE
    /\ captured' = <<>>
    /\ UNCHANGED <<stdout, index, cmds, returncode, runs>>
    /\ UNCHANGED mergeVars

\* update_toc called inside the loop body instead of after the loop.
LoopFinished_Early == TRUE

\* Whether main has reached line 153.
LoopFinished == i > Len(cmds)

\* main, lines 153-155.
UpdateToc ==
    /\ pc = "loop"
    /\ LoopFinished
    /\ index' = update_toc(index, cmds)
    /\ writes' = Append(writes, INDEX_PAGE)
    /\ pc' = "done"
    /\ UNCHANGED <<stdout, docs, cmds, i, text, file_existed, returncode, captured,
                   outcomes, runs>>
    /\ UNCHANGED mergeVars

\* The script is started again on the store the last run left.
Rerun ==
    /\ Ended
    /\ runs < MaxRuns
    /\ runs' = runs + 1
    /\ pc' = "start"
    /\ cmds' = <<>>
    /\ i' = 0
    /\ text' = <<>>
    /\ file_existed' = FALSE
    /\ returncode' = 0
    /\ captured' = <<>>
    /\ writes' = <<>>
    /\ outcomes' = <<>>
    /\ UNCHANGED <<stdout, docs, index>>
    /\ UNCHANGED mergeVars

Next ==
    \/ GetAllCommands
    \/ GetAllCommandsFails
    \/ UnpackFails
    \/ ProcessIgnore
    \/ ProcessRead
    \/ Capture
    \/ CaptureFails
    \/ MergeSave
    \/ UpdateToc
    \/ Rerun

Spec == Init /\ [][Next]_vars

(***************************************************************************)
(* Claims about a run.                                                     *)
(***************************************************************************)
Placeholders == {PH_COMMAND, PH_DESCRIPTION}

NoPlaceholder(t) == \A k \in 1..Len(t) : t[k] \notin Placeholders

\* One start marker, one end marker, the start marker first.
OneMarkerPair(t) ==
    /\ Count(t, AUTOMATED_START_MARKER) = 1
    /\ Count(t, AUTOMATED_STOP_MARKER) = 1
    /\ Find(t, AUTOMATED_START_MARKER, 0) < Find(t, AUTOMATED_STOP_MARKER, 0)

\* main is about to process a command whose page exists and holds neither
\* marker.
AtUnmanagedDoc ==
    /\ pc = "loop"
    /\ i <= Len(cmds)
    /\ Len(cmds[i]) = 2
    /\ docs[cmds[i][1]] # NotFound
    /\ ~Contains(docs[cmds[i][1]], AUTOMATED_START_MARKER)
    /\ ~Contains(docs[cmds[i][1]], AUTOMATED_STOP_MARKER)

\* C3 (unmanaged skip): processing a command whose page exists and holds no
\* marker writes nothing, reports the command as skipped, and leaves main
\* at the next command.
C3_UnmanagedSkip ==
    [][AtUnmanagedDoc =>
          /\ docs' = docs
          /\ index' = index
          /\ writes' = writes
          /\ outcomes' = Append(outcomes, "skipped")
          /\ pc' = "loop"
          /\ i' = i + 1]_vars

\* A command was just skipped and its page, which holds no marker, is in
\* the store.
C3_Witness ==
    /\ pc = "loop"
    /\ i > 1
    /\ outcomes[i - 1] = "skipped"
    /\ docs[cmds[i - 1][1]] = UnmanagedDoc
    /\ writes = <<>>

\* C5 (template completeness): the text saved for a command whose page did
\* not exist holds no placeholder and exactly one marker pair.
C5_TemplateComplete ==
    [][(pc = "merge" /\ ~file_existed) =>
          /\ docs'[cmds[i][1]] # NotFound
          /\ NoPlaceholder(docs'[cmds[i][1]])
          /\ OneMarkerPair(docs'[cmds[i][1]])]_vars

\* A page was just created from the template and saved.
C5_Witness ==
    /\ pc = "loop"
    /\ i > 1
    /\ outcomes[i - 1] = "created"
    /\ writes[Len(writes)] = cmds[i - 1][1]
    /\ Contains(docs[cmds[i - 1][1]],
                DescriptionSentence(cmds[i - 1][1], cmds[i - 1][2]))

\* C6 (fail fast): once a help invocation has exited with a non-zero
\* status the run is over, and neither that step nor any later one writes
\* a page or the index.
C6_FailFast ==
    /\ [](returncode # 0 => pc = "CalledProcessError")
    /\ [][returncode' # 0 =>
            /\ docs' = docs
            /\ index' = index
            /\ writes' = writes]_vars

\* The help invocation of a later command failed after an earlier command's
\* page was written.
C6_Witness ==
    /\ returncode # 0
    /\ pc = "CalledProcessError"
    /\ i >= 2
    /\ \E k \in 1..(i - 1) : outcomes[k] # "skipped"

\* The lines of the listing region of the index page: what stands between
\* the toctree header and the fence that closes it, without the option
\* lines and the blank lines.
RECURSIVE EntryLines(_)
EntryLines(lines) ==
    IF lines = <<>> THEN <<>>
    ELSE (IF Head(lines) = <<>> \/ Head(lines)[1] \in {":titlesonly:", ":maxdepth: 1"}
          THEN <<>> ELSE <<Head(lines)>>)
         \o EntryLines(Tail(lines))

Listing(t) ==
    LET s == Find(t, TOC_HEADER, 0)
        e == Find(t, <<FENCE>>, s + 1)
    IN  EntryLines(SplitLines(SubSeq(t, s + Len(TOC_HEADER) + 1, e)))

\* C7 (index ordering): the index page is written only by a run that has
\* processed every command, once, as the last write of the run, and its
\* listing is then one line "name <name>" per command, in the order of
\* the command list.
C7_IndexOrdering ==
    /\ (\E k \in 1..Len(writes) : writes[k] = INDEX_PAGE) => pc = "done"
    /\ pc = "done" =>
          /\ Cardinality({k \in 1..Len(writes) : writes[k] = INDEX_PAGE}) = 1
          /\ writes[Len(writes)] = INDEX_PAGE
          /\ Len(outcomes) = Len(cmds)
          /\ Contains(index, TOC_HEADER)
          /\ Listing(index) =
                [k \in 1..Len(cmds) |->
                    cmds[k][1] \o <<" ", "<">> \o cmds[k][1] \o <<">">>]

\* A run over two commands has completed.
C7_Witness ==
    /\ pc = "done"
    /\ Len(cmds) = 2
    /\ Len(Listing(index)) = 2
    /\ Len(writes) >= 2

FooBarOutput ==
    ListLine(FOO, <<>>) \o <<"\n">> \o ListLine(BAR, <<>>) \o <<"\n">>

\* C8 (enumeration): the list has one entry per indented line, each
\* command once, sorted by command; and for the output "    foo", "    bar"
\* the commands foo and bar are found and both are processed by the loop.
C8_Enumeration ==
    /\ i >= 1 =>
          /\ Len(cmds) = Len(IndentedLines(SplitLines(stdout)))
          /\ \A j, k \in 1..Len(cmds) :
                j < k => StrLess(cmds[j][1], cmds[k][1])
    /\ (stdout = FooBarOutput /\ i >= 1) =>
          /\ Len(cmds) = 2
          /\ {cmds[1][1], cmds[2][1]} = {FOO, BAR}
    /\ (stdout = FooBarOutput /\ Ended /\ returncode = 0) =>
          /\ pc = "done"
          /\ Len(outcomes) = 2

\* C10 (no template residue): when a run completes, no page in the store
\* holds a placeholder of the template, whatever the runs before it did.
C10_NoTemplateResidue ==
    pc = "done" =>
        \A c \in CmdNames : docs[c] # NotFound => NoPlaceholder(docs[c])

(***************************************************************************)
(* The merge on its own: process_command applied to a document that is     *)
(* already in the store, once and then once more with the same capture.    *)
(***************************************************************************)
MergeFragments ==
    { AUTOMATED_START_MARKER,
      AUTOMATED_STOP_MARKER,
      <<"prose">>,
      <<":input: ", "old", "\n">> }

\* Every concatenation of at most MaxFrags fragments.
MergeDocs ==
    { Concat(fs) : fs \in UNION { [1..n -> MergeFragments] : n \in 0..MaxFrags } }

\* The text process_command is about to read: the document, or the result
\* of the last merge.
MergeInput == IF mOut = <<>> THEN mD ELSE mOut[Len(mOut)]

idleRun ==
    /\ stdout = <<>>
    /\ docs = [c \in CmdNames |-> NotFound]
    /\ index = <<>>
    /\ pc = "idle"
    /\ cmds = <<>>
    /\ i = 0
    /\ text = <<>>
    /\ file_existed = FALSE
    /\ returncode = 0
    /\ captured = <<>>
    /\ writes = <<>>
    /\ outcomes = <<>>
    /\ runs = 0

InitMerge ==
    /\ idleRun
    /\ mD \in MergeDocs
    /\ mCmd \in CmdNames
    /\ mHelp \in HelpOutputs
    /\ mOut = <<>>
    /\ mSkipped = <<>>

\* process_command returns at line 133: nothing is written.
MergeSkip ==
    /\ Len(mOut) < 2
    /\ MarkerNotFound(MergeInput)
    /\ mOut' = Append(mOut, MergeInput)
    /\ mSkipped' = Append(mSkipped, TRUE)
    /\ UNCHANGED <<mD, mCmd, mHelp>>
    /\ UNCHANGED runVars

\* process_command reaches line 145 and writes the merged text.
MergeApply ==
    /\ Len(mOut) < 2
    /\ ~MarkerNotFound(MergeInput)
    /\ mOut' = Append(mOut, MergedText(MergeInput, TRUE, mCmd, <<>>, mHelp))
    /\ mSkipped' = Append(mSkipped, FALSE)
    /\ UNCHANGED <<mD, mCmd, mHelp>>
    /\ UNCHANGED runVars

NextMerge == MergeSkip \/ MergeApply

SpecMerge == InitMerge /\ [][NextMerge]_vars

(***************************************************************************)
(* Claims about the merge.                                                 *)
(***************************************************************************)
\* The region of d as the claims speak of it: both markers occur and the
\* first start marker comes before the first end marker.
RegionPresent(d) ==
    /\ Contains(d, AUTOMATED_START_MARKER)
    /\ Contains(d, AUTOMATED_STOP_MARKER)
    /\ Find(d, AUTOMATED_START_MARKER, 0) < Find(d, AUTOMATED_STOP_MARKER, 0)

RegionStart(d) == Find(d, AUTOMATED_START_MARKER, 0)
RegionEnd(d) == Find(d, AUTOMATED_STOP_MARKER, 0) + Len(AUTOMATED_STOP_MARKER)

\* The last n tokens of t.
LastN(t, n) == SubSeq(t, Len(t) - n + 1, Len(t))

\* C1 (idempotence): merging a second time with the same capture leaves
\* the text as the first merge left it, for every document text.
C1_Idempotent ==
    Len(mOut) = 2 => mOut[2] = mOut[1]

\* C2 (isolation): when the region of the document is the span [s, e), the
\* merge leaves the text before s and the text from e onward as they were.
C2_Isolation ==
    (Len(mOut) >= 1 /\ RegionPresent(mD)) =>
        /\ SliceTo(mOut[1], RegionStart(mD)) = SliceTo(mD, RegionStart(mD))
        /\ Len(mOut[1]) >= Len(mD) - RegionEnd(mD)
        /\ LastN(mOut[1], Len(mD) - RegionEnd(mD)) = SliceFrom(mD, RegionEnd(mD))

\* C4 (single region): after a merge into a document whose region is
\* present, the text holds one start marker and one end marker, the start
\* marker first, and they bracket exactly the generated content.
C4_SingleRegion ==
    (Len(mOut) >= 1 /\ RegionPresent(mD)) =>
        /\ Count(mOut[1], AUTOMATED_START_MARKER) = 1
        /\ Count(mOut[1], AUTOMATED_STOP_MARKER) = 1
        /\ RegionStart(mOut[1]) < RegionEnd(mOut[1])
        /\ SubSeq(mOut[1], RegionStart(mOut[1]) + 1, RegionEnd(mOut[1]))
              = help_cmd_output(mCmd, mHelp)

\* C9 (absent region): when the start marker or the end marker does not
\* occur in the document, the region is absent: the merge is skipped and
\* the text is left as it was.
C9_AbsentWhenMarkerMissing ==
    (Len(mOut) >= 1 /\ ( ~Contains(mD, AUTOMATED_START_MARKER)
                         \/ ~Contains(mD, AUTOMATED_STOP_MARKER) )) =>
        /\ mSkipped[1]
        /\ mOut[1] = mD

====
